---- MODULE Spec2Model ----
(***************************************************************************)
(* Model of tools/sigma/backends/splunk.py: the SplunkBackend and          *)
(* SplunkXMLBackend output backends of sigmac.                             *)
(*                                                                         *)
(* A text is a sequence of tokens.  Characters that the code inspects      *)
(* (quotes, backslashes, wildcards, angle brackets) are one-character      *)
(* tokens; fixed fragments of the source (panel_pre, " OR ", ...) are one  *)
(* token each.  String concatenation is \o.                                *)
(*                                                                         *)
(* Five specifications, one per group of operations:                       *)
(*   SpecEscape    the reEscape pattern applied to a value                 *)
(*   SpecList      generateMapItemListNode of both backends                *)
(*   SpecAgg       generateAggregation of both backends on one spec object *)
(*   SpecGenerate  SplunkBackend.generate                                  *)
(*   SpecXML       SplunkXMLBackend.generate / finalize on one instance    *)
(***************************************************************************)
EXTENDS Integers, Sequences, FiniteSets

VARIABLES
  escVal, escSel, escDone,                 \* reEscape: value, matched positions, applied
  lnBackend, lnKey, lnValue, lnOut,        \* generateMapItemListNode: receiver, arguments, outcome
  agg, agg0, aggCall,                      \* aggregation spec object, its value as parsed, last call
  genIn, genOut,                           \* SplunkBackend.generate: sigmaparser, outcome
  queries, xmlLog, xmlFin, xmlLast         \* SplunkXMLBackend: self.queries, history of the calls

escVars == <<escVal, escSel, escDone>>
lnVars  == <<lnBackend, lnKey, lnValue, lnOut>>
aggVars == <<agg, agg0, aggCall>>
genVars == <<genIn, genOut>>
xmlVars == <<queries, xmlLog, xmlFin, xmlLast>>
vars    == <<escVal, escSel, escDone, lnBackend, lnKey, lnValue, lnOut,
             agg, agg0, aggCall, genIn, genOut, queries, xmlLog, xmlFin, xmlLast>>

(***************************************************************************)
(* Bounds of the model.                                                    *)
(***************************************************************************)
MaxValLen == 3
MaxVals == 3
MaxConds == 2
MaxFields == 1
MaxPanels == 2
MaxFinalize == 2

\* Python's None, where the other values are strings.
None == "None"

\* All sequences over S of length 0..n.
SeqsUpTo(S, n) == UNION { [1..k -> S] : k \in 0..n }

\* str.join: the texts of parts, separated by sep.
RECURSIVE Join(_, _)
Join(parts, sep) ==
  IF parts = <<>> THEN <<>>
  ELSE IF Len(parts) = 1 THEN parts[1]
  ELSE parts[1] \o sep \o Join(Tail(parts), sep)

\* str.replace(old, new) for a one-character old.
RECURSIVE Replace(_, _, _)
Replace(s, old, new) ==
  IF s = <<>> THEN <<>>
  ELSE (IF Head(s) = old THEN new ELSE <<Head(s)>>) \o Replace(Tail(s), old, new)

(***************************************************************************)
(* Template tokens of SplunkBackend, inherited by SplunkXMLBackend.        *)
(***************************************************************************)
Quote == "\""
Backslash == "\\"
mapListsSpecialHandling == TRUE

(***************************************************************************)
(* reEscape = ("|(?<!\\)\\(?![*?\\]))                                      *)
(***************************************************************************)
EscChars == {Quote, Backslash, "*", "?", "a"}

\* The lookahead class [*?\\].
reEscapeLookahead == {"*", "?", Backslash}

\* The pattern with its lookbehind (?<!\\) left out.
reEscapeMatchesNoLookbehind(s, i) ==
  IF s[i] = Quote THEN TRUE
  ELSE /\ s[i] = Backslash
       /\ ~(i < Len(s) /\ s[i + 1] \in reEscapeLookahead)

\* Whether the pattern matches at position i of s: the first alternative is a
\* quote, the second a backslash under a negative lookbehind for a backslash
\* and a negative lookahead for the class.
reEscapeMatches(s, i) ==
  IF s[i] = Quote THEN TRUE
  ELSE /\ ~(i > 1 /\ s[i - 1] = Backslash)
       /\ s[i] = Backslash
       /\ ~(i < Len(s) /\ s[i + 1] \in reEscapeLookahead)

\* The positions the pattern matches in one scan from position i on; a match
\* is one character long, and the lookarounds read the subject string.
RECURSIVE reEscapeFind(_, _)
reEscapeFind(s, i) ==
  IF i > Len(s) THEN {}
  ELSE IF reEscapeMatches(s, i) THEN {i} \cup reEscapeFind(s, i + 1)
  ELSE reEscapeFind(s, i + 1)

\* The substitution of the value cleaner: a backslash before every match.
RECURSIVE reEscapeSub(_, _)
reEscapeSub(s, i) ==
  IF i > Len(s) THEN <<>>
  ELSE (IF reEscapeMatches(s, i) THEN <<Backslash, s[i]>> ELSE <<s[i]>>)
       \o reEscapeSub(s, i + 1)

cleanValue(s) == reEscapeSub(s, 1)

EscapeInit ==
  /\ escVal \in SeqsUpTo(EscChars, MaxValLen)
  /\ escSel = {}
  /\ escDone = FALSE

ApplyEscape ==
  /\ ~escDone
  /\ escSel' = reEscapeFind(escVal, 1)
  /\ escDone' = TRUE
  /\ UNCHANGED escVal

(***************************************************************************)
(* generateMapItemListNode                                                 *)
(***************************************************************************)
\* A list item: its Python type and the characters of str(item).
Item(t, txt) == [type |-> t, text |-> txt]

Items ==
  { Item("str", <<"a">>), Item("str", <<"b">>), Item("str", <<"a", Quote>>),
    Item("int", <<"1">>), Item("float", <<"1", ".", "5">>),
    Item("list", <<"[", "'", "b", "'", "]">>) }

\* The value node of one item: a string escaped and quoted, a number bare.
generateValueNode(item) ==
  IF item.type \in {"int", "float"} THEN item.text
  ELSE <<Quote>> \o cleanValue(item.text) \o <<Quote>>

MapItemParts(key, value) ==
  [i \in 1..Len(value) |-> <<key, "=">> \o generateValueNode(value[i])]

Text(t) == [kind |-> "text", text |-> t]
Raised(e) == [kind |-> "raise", text |-> <<e>>]
NotCalled == [kind |-> "none", text |-> <<>>]

\* SplunkBackend.generateMapItemListNode without the enclosing parentheses.
SplunkMapItemListNodeNoParens(key, value) ==
  IF ~({value[i].type : i \in 1..Len(value)} \subseteq {"str", "int"})
  THEN Raised("TypeError")
  ELSE Text(Join(MapItemParts(key, value), <<" OR ">>))

SplunkMapItemListNode(key, value) ==
  IF ~({value[i].type : i \in 1..Len(value)} \subseteq {"str", "int"})
  THEN Raised("TypeError")
  ELSE Text(<<"(">> \o Join(MapItemParts(key, value), <<" OR ">>) \o <<")">>)

XMLMapItemListNode(key, value) ==
  Text(<<"(">> \o Join(MapItemParts(key, value), <<" OR ">>) \o <<")">>)

ListInit ==
  /\ lnBackend \in {"splunk", "splunkxml"}
  /\ lnKey = "x"
  /\ lnValue \in SeqsUpTo(Items, MaxVals)
  /\ lnOut = NotCalled

SplunkGenerateMapItemListNode ==
  /\ mapListsSpecialHandling
  /\ lnBackend = "splunk"
  /\ lnOut = NotCalled
  /\ lnOut' = SplunkMapItemListNode(lnKey, lnValue)
  /\ UNCHANGED <<lnBackend, lnKey, lnValue>>

XMLGenerateMapItemListNode ==
  /\ mapListsSpecialHandling
  /\ lnBackend = "splunkxml"
  /\ lnOut = NotCalled
  /\ lnOut' = XMLMapItemListNode(lnKey, lnValue)
  /\ UNCHANGED <<lnBackend, lnKey, lnValue>>

(***************************************************************************)
(* generateAggregation                                                     *)
(***************************************************************************)
\* The aggregation spec object (SigmaAggregationParser): aggfunc is the
\* function's code, aggfunc_notrans its name as written in the rule.
AggFuncs == {"count", "min", "max", "avg", "sum", "near"}
AGGFUNC_NEAR == "near"

NoAgg ==
  [isNone |-> TRUE, aggfunc |-> None, aggfunc_notrans |-> None, aggfield |-> None,
   groupfield |-> None, cond_op |-> None, condition |-> None]

AggSpecs ==
  { [isNone |-> FALSE, aggfunc |-> f, aggfunc_notrans |-> f, aggfield |-> af,
     groupfield |-> gf, cond_op |-> op, condition |-> "5"] :
      f \in AggFuncs, af \in {None, "user"}, gf \in {None, "host"}, op \in {">", "<"} }

\* x or "".
OrEmpty(x) == IF x = None THEN <<>> ELSE <<x>>

\* " | stats %s(%s) as val | search val %s %s"
StatsText(fn, a) ==
  <<" | stats ", fn, "(">> \o OrEmpty(a.aggfield) \o <<") as val | search val ",
    a.cond_op, " ", a.condition>>

\* " | stats %s(%s) as val by %s | search val %s %s"
StatsByText(fn, a) ==
  <<" | stats ", fn, "(">> \o OrEmpty(a.aggfield) \o <<") as val by ">>
    \o OrEmpty(a.groupfield) \o <<" | search val ", a.cond_op, " ", a.condition>>

\* SplunkBackend.generateAggregation that renders count as it is written.
SplunkAggregationNoDc(a) ==
  IF a.isNone THEN [out |-> Text(<<>>), agg |-> a]
  ELSE IF a.aggfunc = AGGFUNC_NEAR THEN [out |-> Raised("NotImplementedError"), agg |-> a]
  ELSE IF a.groupfield = None THEN [out |-> Text(StatsText(a.aggfunc_notrans, a)), agg |-> a]
  ELSE [out |-> Text(StatsByText(a.aggfunc_notrans, a)), agg |-> a]

\* SplunkBackend.generateAggregation: the outcome and the spec object after it.
SplunkAggregation(a) ==
  IF a.isNone THEN [out |-> Text(<<>>), agg |-> a]
  ELSE IF a.aggfunc = AGGFUNC_NEAR THEN [out |-> Raised("NotImplementedError"), agg |-> a]
  ELSE IF a.groupfield = None THEN [out |-> Text(StatsText(a.aggfunc_notrans, a)), agg |-> a]
  ELSE LET b == IF a.aggfunc_notrans = "count"
                THEN [a EXCEPT !.aggfunc_notrans = "dc"] ELSE a
       IN [out |-> Text(StatsByText(b.aggfunc_notrans, b)), agg |-> b]

\* SplunkXMLBackend.generateAggregation.
XMLAggregation(a) ==
  IF a.isNone THEN [out |-> Text(<<>>), agg |-> a]
  ELSE IF a.aggfunc = AGGFUNC_NEAR THEN [out |-> Text(<<>>), agg |-> a]
  ELSE IF a.groupfield = None THEN [out |-> Text(StatsText(a.aggfunc_notrans, a)), agg |-> a]
  ELSE [out |-> Text(StatsByText(a.aggfunc_notrans, a)), agg |-> a]

NoAggCall == [backend |-> None, arg |-> NoAgg, out |-> NotCalled]

AggInit ==
  /\ agg \in AggSpecs \cup {NoAgg}
  /\ agg0 = agg
  /\ aggCall = NoAggCall

SplunkGenerateAggregation ==
  /\ agg' = SplunkAggregation(agg).agg
  /\ aggCall' = [backend |-> "splunk", arg |-> agg, out |-> SplunkAggregation(agg).out]
  /\ UNCHANGED agg0

XMLGenerateAggregation ==
  /\ agg' = XMLAggregation(agg).agg
  /\ aggCall' = [backend |-> "splunkxml", arg |-> agg, out |-> XMLAggregation(agg).out]
  /\ UNCHANGED agg0

(***************************************************************************)
(* SplunkBackend.generate                                                  *)
(***************************************************************************)
\* The outcome of generateQuery for one condition: a text, None, or an
\* exception that propagates.
Null == [kind |-> "null", text |-> <<>>]
QueryOutcomes == {Text(<<"q1">>), Text(<<"q2">>), Null, Raised("TypeError")}

\* One element of sigmaparser.condparsed, with what generateQuery,
\* generateBefore and generateAfter give for it.
CondParsed ==
  [query : QueryOutcomes, before : {None, "pre "}, after : {None, " suf"}]

\* sigmaparser.config.get_fieldmapping(field).resolve_fieldname(field): a
\* string, a list of strings, or a value of another type.
FieldNames == {"a", "b", "c"}
resolve_fieldname(field) ==
  IF field = "a" THEN [type |-> "str", cols |-> <<"A">>]
  ELSE IF field = "b" THEN [type |-> "list", cols |-> <<"B1", "B2">>]
  ELSE [type |-> "other", cols |-> <<>>]

\* The sigmaparsers of at most nf requested fields and nc conditions;
\* hasFields says whether parsedyaml has a "fields" entry.
Sigmaparsers(nf, nc) ==
  { [hasFields |-> TRUE, fields |-> f, condparsed |-> c] :
      f \in SeqsUpTo(FieldNames, nf), c \in SeqsUpTo(CondParsed, nc) }
  \cup
  { [hasFields |-> FALSE, fields |-> <<>>, condparsed |-> c] :
      c \in SeqsUpTo(CondParsed, nc) }

\* The local variable mapped before its first assignment.
Unbound == "Unbound"

\* The loop over parsedyaml["fields"]: columns, the last value of mapped, and
\* whether the TypeError was raised.
RECURSIVE FieldLoop(_, _, _)
FieldLoop(fields, columns, mapped) ==
  IF fields = <<>> THEN [raised |-> FALSE, columns |-> columns, mapped |-> mapped]
  ELSE LET m == resolve_fieldname(Head(fields)) IN
       IF m.type \in {"str", "list"}
       THEN FieldLoop(Tail(fields), columns \o m.cols, m.type)
       ELSE [raised |-> TRUE, columns |-> columns, mapped |-> m.type]

\* The try block: the projection clause in fields, and mapped, which the
\* KeyError handler sets to None.
Projection(sp) ==
  IF ~sp.hasFields
  THEN [raised |-> FALSE, mapped |-> None, fields |-> <<>>]
  ELSE LET r == FieldLoop(sp.fields, <<>>, Unbound) IN
       [raised |-> r.raised, mapped |-> r.mapped,
        fields |-> <<" | table ">>
                     \o Join([i \in 1..Len(r.columns) |-> <<r.columns[i]>>], <<",">>)]

\* The body of the loop over condparsed after its three calls.
ComposeResult(parsed, proj) ==
  LET r0 == <<>>
      r1 == IF parsed.before # None THEN <<parsed.before>> ELSE r0
      r2 == IF parsed.query.kind # "null" THEN r1 \o parsed.query.text ELSE r1
      r3 == IF parsed.after # None THEN r2 \o <<parsed.after>> ELSE r2
  IN IF proj.mapped = Unbound THEN Raised("UnboundLocalError")
     ELSE IF proj.mapped # None THEN Text(r3 \o proj.fields)
     ELSE Text(r3)

GenOutcome(o, n) == [kind |-> o.kind, text |-> o.text, rendered |-> n]

\* The loop with its return after the loop: every condition is rendered and
\* the last result is returned.
RECURSIVE SplunkGenerateLoopLast(_, _, _)
SplunkGenerateLoopLast(condparsed, proj, i) ==
  IF condparsed = <<>> THEN GenOutcome(Null, 0)
  ELSE IF condparsed[i].query.kind = "raise" THEN GenOutcome(condparsed[i].query, i)
  ELSE IF ComposeResult(condparsed[i], proj).kind = "raise" \/ i = Len(condparsed)
  THEN GenOutcome(ComposeResult(condparsed[i], proj), i)
  ELSE SplunkGenerateLoopLast(condparsed, proj, i + 1)

\* The loop over condparsed from iteration i: the return statement is in the
\* loop body, so the iteration that starts is the one that returns.
SplunkGenerateLoop(condparsed, proj, i) ==
  IF i > Len(condparsed) THEN GenOutcome(Null, i - 1)
  ELSE IF condparsed[i].query.kind = "raise" THEN GenOutcome(condparsed[i].query, i)
  ELSE GenOutcome(ComposeResult(condparsed[i], proj), i)

SplunkGenerate(sp) ==
  LET proj == Projection(sp) IN
  IF proj.raised THEN GenOutcome(Raised("TypeError"), 0)
  ELSE SplunkGenerateLoop(sp.condparsed, proj, 1)

GenNotCalled == GenOutcome(NotCalled, 0)

GenerateInit ==
  /\ genIn \in Sigmaparsers(MaxFields, MaxConds)
  /\ genOut = GenNotCalled

Generate ==
  /\ genOut = GenNotCalled
  /\ genOut' = SplunkGenerate(genIn)
  /\ UNCHANGED genIn

(***************************************************************************)
(* SplunkXMLBackend.generate and finalize                                  *)
(***************************************************************************)
panel_pre == "<row><panel><title>"
panel_inf == "</title><table><search><query>"
panel_suf == "</query><earliest>$field1.earliest$</earliest><latest>$field1.latest$</latest><sampleRatio>1</sampleRatio></search><option name=\"count\">20</option><option name=\"dataOverlayMode\">none</option><option name=\"drilldown\">row</option><option name=\"percentagesRow\">false</option><option name=\"refresh.display\">progressbar</option><option name=\"rowNumbers\">false</option><option name=\"totalsRow\">false</option><option name=\"wrap\">true</option></table></panel></row>"
dash_pre == "<form><label>MyDashboard</label><fieldset submitButton=\"false\"><input type=\"time\" token=\"field1\"><label></label><default><earliest>-24h@h</earliest><latest>now</latest></default></input></fieldset>"
dash_suf == "</form>"

\* What generateQuery gives for the conditions of the rules: query texts with
\* markup characters, None, or an exception.
XMLQueryOutcomes ==
  {Text(<<"a", "<", ">">>), Text(<<"&", Quote, ">">>), Null, Raised("TypeError")}

\* What getRuleName gives.
RuleNames == {"R1", "R2"}

\* The rules of at most n conditions.
XMLRules(n) ==
  { [name |-> nm, condparsed |-> c] :
      nm \in RuleNames, c \in SeqsUpTo(XMLQueryOutcomes, n) }

\* The two replace calls with only the first one made.
XMLEscapeLtOnly(query) == Replace(query, "<", <<"&", "l", "t", ";">>)

\* query.replace("<", "&lt;") and then query.replace(">", "&gt;").
XMLEscape(query) ==
  Replace(Replace(query, "<", <<"&", "l", "t", ";">>), ">", <<"&", "g", "t", ";">>)

\* The loop over condparsed: the buffer after it, and whether generateQuery
\* raised, which ends the call where the loop stands.
RECURSIVE XMLGenerateLoop(_, _, _)
XMLGenerateLoop(buf, name, condparsed) ==
  IF condparsed = <<>> THEN [queries |-> buf, raised |-> FALSE]
  ELSE LET query == Head(condparsed) IN
       IF query.kind = "raise" THEN [queries |-> buf, raised |-> TRUE]
       ELSE IF query.kind # "null"
       THEN XMLGenerateLoop(
              buf \o <<panel_pre>> \o <<name>> \o <<panel_inf>>
                  \o XMLEscape(query.text) \o <<panel_suf>>,
              name, Tail(condparsed))
       ELSE XMLGenerateLoop(buf, name, Tail(condparsed))

\* The (rule name, query text) pairs a call of generate reaches the appending
\* branch with: the conditions with a query text before the first exception.
RECURSIVE AppendCalls(_, _)
AppendCalls(name, condparsed) ==
  IF condparsed = <<>> THEN <<>>
  ELSE IF Head(condparsed).kind = "raise" THEN <<>>
  ELSE IF Head(condparsed).kind = "null" THEN AppendCalls(name, Tail(condparsed))
  ELSE <<[name |-> name, query |-> Head(condparsed).text]>>
         \o AppendCalls(name, Tail(condparsed))

NoXMLCall == [op |-> "none", pre |-> <<>>, raised |-> FALSE, ret |-> <<>>]

XMLInit ==
  /\ queries = <<dash_pre>>
  /\ xmlLog = <<>>
  /\ xmlFin = 0
  /\ xmlLast = NoXMLCall

XMLGenerate ==
  \E rule \in XMLRules(MaxPanels - Len(xmlLog)) :
    LET r == XMLGenerateLoop(queries, rule.name, rule.condparsed) IN
    /\ queries' = r.queries
    /\ xmlLog' = xmlLog \o AppendCalls(rule.name, rule.condparsed)
    /\ xmlLast' = [op |-> "generate", pre |-> queries, raised |-> r.raised, ret |-> <<>>]
    /\ UNCHANGED xmlFin

XMLFinalize ==
  /\ xmlFin < MaxFinalize
  /\ queries' = queries \o <<dash_suf>>
  /\ xmlFin' = xmlFin + 1
  /\ xmlLast' = [op |-> "finalize", pre |-> queries, raised |-> FALSE,
                 ret |-> queries \o <<dash_suf>>]
  /\ UNCHANGED xmlLog

(***************************************************************************)
(* The specifications.  Each one holds the other groups' variables at      *)
(* their idle values.                                                      *)
(***************************************************************************)
EscapeIdle == escVal = <<>> /\ escSel = {} /\ escDone = FALSE
ListIdle == lnBackend = "splunk" /\ lnKey = "x" /\ lnValue = <<>> /\ lnOut = NotCalled
AggIdle == agg = NoAgg /\ agg0 = NoAgg /\ aggCall = NoAggCall
GenerateIdle ==
  /\ genIn = [hasFields |-> FALSE, fields |-> <<>>, condparsed |-> <<>>]
  /\ genOut = GenNotCalled

InitEscape == EscapeInit /\ ListIdle /\ AggIdle /\ GenerateIdle /\ XMLInit
NextEscape == ApplyEscape /\ UNCHANGED <<lnVars, aggVars, genVars, xmlVars>>
SpecEscape == InitEscape /\ [][NextEscape]_vars

InitList == EscapeIdle /\ ListInit /\ AggIdle /\ GenerateIdle /\ XMLInit
NextList ==
  \/ SplunkGenerateMapItemListNode /\ UNCHANGED <<escVars, aggVars, genVars, xmlVars>>
  \/ XMLGenerateMapItemListNode /\ UNCHANGED <<escVars, aggVars, genVars, xmlVars>>
SpecList == InitList /\ [][NextList]_vars

InitAgg == EscapeIdle /\ ListIdle /\ AggInit /\ GenerateIdle /\ XMLInit
NextAgg ==
  \/ SplunkGenerateAggregation /\ UNCHANGED <<escVars, lnVars, genVars, xmlVars>>
  \/ XMLGenerateAggregation /\ UNCHANGED <<escVars, lnVars, genVars, xmlVars>>
SpecAgg == InitAgg /\ [][NextAgg]_vars

InitGenerate == EscapeIdle /\ ListIdle /\ AggIdle /\ GenerateInit /\ XMLInit
NextGenerate == Generate /\ UNCHANGED <<escVars, lnVars, aggVars, xmlVars>>
SpecGenerate == InitGenerate /\ [][NextGenerate]_vars

InitXML == EscapeIdle /\ ListIdle /\ AggIdle /\ GenerateIdle /\ XMLInit
NextXML ==
  \/ XMLGenerate /\ UNCHANGED <<escVars, lnVars, aggVars, genVars>>
  \/ XMLFinalize /\ UNCHANGED <<escVars, lnVars, aggVars, genVars>>
SpecXML == InitXML /\ [][NextXML]_vars

(***************************************************************************)
(* Properties.                                                             *)
(***************************************************************************)
OptText(x) == IF x = None THEN <<>> ELSE <<x>>

\* preamble + condition text + suffix + projection clause of condition i.
ComposedText(sp, i) ==
  OptText(sp.condparsed[i].before)
    \o (IF sp.condparsed[i].query.kind = "text" THEN sp.condparsed[i].query.text ELSE <<>>)
    \o OptText(sp.condparsed[i].after)
    \o (IF sp.hasFields THEN Projection(sp).fields ELSE <<>>)

\* C1 as stated: for a rule with n >= 1 top-level conditions, the text
\* SplunkBackend.generate returns is the composed text (preamble, condition
\* text, suffix, projection clause, in that order) of the LAST condition.
C1_ReturnsLastCondition ==
  (genOut.kind = "text" /\ Len(genIn.condparsed) >= 1)
    => genOut.text = ComposedText(genIn, Len(genIn.condparsed))

\* C1 amended: whenever SplunkBackend.generate returns a text, the rule has
\* n >= 1 conditions, the text is the composed text (preamble, condition text,
\* suffix, projection clause, in that order) of the FIRST condition, and the
\* first condition is the only one that was rendered.
C1_ReturnsFirstCondition ==
  genOut.kind = "text"
    => /\ Len(genIn.condparsed) >= 1
       /\ genOut.text = ComposedText(genIn, 1)
       /\ genOut.rendered = 1

\* generate has returned for a rule of two conditions whose composed texts
\* differ, with a preamble, a suffix and a projection clause of two columns
\* in the first.
C1_Witness ==
  /\ genOut.kind = "text"
  /\ Len(genIn.condparsed) = 2
  /\ ComposedText(genIn, 1) # ComposedText(genIn, 2)
  /\ genIn.condparsed[1].before # None
  /\ genIn.condparsed[1].query.kind = "text"
  /\ genIn.condparsed[1].after # None
  /\ genIn.hasFields
  /\ genIn.fields = <<"b">>

\* C6 as stated: when no fields are requested (the "fields" entry is absent,
\* or present and empty) and no condition fails to render, generate completes
\* without an error and returns a text with no " | table " clause.
C6_NoFieldsNoProjectionNoError ==
  ( /\ genOut # GenNotCalled
    /\ genIn.fields = <<>>
    /\ Len(genIn.condparsed) >= 1
    /\ \A i \in 1..Len(genIn.condparsed) : genIn.condparsed[i].query.kind # "raise" )
    => /\ genOut.kind = "text"
       /\ \A k \in 1..Len(genOut.text) : genOut.text[k] # " | table "

\* The number of occurrences of token t in text s.
Count(s, t) == Cardinality({i \in 1..Len(s) : s[i] = t})

\* C2 as stated: after any sequence of generate and finalize calls the buffer
\* begins with the document preamble, holds it once, and holds the document
\* suffix at most once, as its last fragment.
C2_PreambleOnceSuffixAtMostOnceLast ==
  /\ Len(queries) >= 1
  /\ queries[1] = dash_pre
  /\ Count(queries, dash_pre) = 1
  /\ Count(queries, dash_suf) <= 1
  /\ (Count(queries, dash_suf) = 1 => queries[Len(queries)] = dash_suf)

\* The entity-escaped form of one character: only "<" and ">" change.
EntityOf(c) ==
  IF c = "<" THEN <<"&", "l", "t", ";">>
  ELSE IF c = ">" THEN <<"&", "g", "t", ";">>
  ELSE <<c>>

\* The panel of one appended rule.
Panel(e) ==
  <<panel_pre, e.name, panel_inf>>
    \o Join([i \in 1..Len(e.query) |-> EntityOf(e.query[i])], <<>>)
    \o <<panel_suf>>

\* C3: the document the one finalize call after a sequence of appended
\* rules on a fresh backend returns is the document preamble, one panel per
\* appended rule in call order (panel_pre, rule name, panel_inf, the query text
\* with every "<" and ">" replaced by its entity and nothing else changed,
\* panel_suf), and one document suffix; with no rule, preamble and suffix.
C3_DocumentIsPreamblePanelsSuffix ==
  (xmlLast.op = "finalize" /\ xmlFin = 1)
    => xmlLast.ret
         = <<dash_pre>> \o Join([i \in 1..Len(xmlLog) |-> Panel(xmlLog[i])], <<>>)
             \o <<dash_suf>>

\* The first finalize has returned after R1 and then R2 were appended, with
\* query texts that hold "<", ">" and other markup characters.
C3_Witness ==
  /\ xmlLast.op = "finalize"
  /\ xmlFin = 1
  /\ Len(xmlLog) = 2
  /\ xmlLog[1] = [name |-> "R1", query |-> <<"a", "<", ">">>]
  /\ xmlLog[2] = [name |-> "R2", query |-> <<"&", Quote, ">">>]

\* C4 as stated: when rendering a condition of a rule fails in
\* SplunkXMLBackend.generate, the buffer after the call is the buffer before it.
C4_FailedRuleLeavesBufferUnchanged ==
  (xmlLast.op = "generate" /\ xmlLast.raised) => queries = xmlLast.pre

\* C5 as stated: in both backends, a list with a value that is neither a
\* string nor a number fails with the type error, and a list of strings and
\* numbers only never does.
C5_TypeErrorIffNonScalar ==
  lnOut.kind # "none"
    => LET scalar(i) == lnValue[i].type \in {"str", "int", "float"} IN
       /\ (\E i \in 1..Len(lnValue) : ~scalar(i)) => lnOut.kind = "raise"
       /\ (\A i \in 1..Len(lnValue) : scalar(i)) => lnOut.kind = "text"

\* The clause's function token, after " | stats ".
FnToken(out) == IF Len(out.text) >= 2 THEN out.text[2] ELSE None

\* C7 as stated: for a spec with function count and a groupfield,
\* SplunkBackend renders dc and SplunkXMLBackend renders count; for every
\* other function, and for count without a groupfield, both render the spec's
\* function name as it is.
C7_DcOnlyForGroupedCountInSplunk ==
  (aggCall.out.kind # "none" /\ ~aggCall.arg.isNone)
    => /\ aggCall.out.kind = "text"
       /\ FnToken(aggCall.out)
            = IF /\ aggCall.arg.aggfunc_notrans = "count"
                 /\ aggCall.arg.groupfield # None
                 /\ aggCall.backend = "splunk"
              THEN "dc" ELSE aggCall.arg.aggfunc_notrans

\* C7 amended: for a spec whose function is not near: when its function name
\* (aggfunc_notrans) is count and it has a groupfield, SplunkBackend renders dc
\* and SplunkXMLBackend renders count; otherwise both render the function name
\* as it is.  For near, SplunkBackend raises NotImplementedError and
\* SplunkXMLBackend returns the empty text.
C7_DcOnlyForGroupedCountExceptNear ==
  (aggCall.out.kind # "none" /\ ~aggCall.arg.isNone)
    => IF aggCall.arg.aggfunc = AGGFUNC_NEAR
       THEN aggCall.out = (IF aggCall.backend = "splunk"
                           THEN Raised("NotImplementedError") ELSE Text(<<>>))
       ELSE /\ aggCall.out.kind = "text"
            /\ FnToken(aggCall.out)
                 = IF /\ aggCall.arg.aggfunc_notrans = "count"
                      /\ aggCall.arg.groupfield # None
                      /\ aggCall.backend = "splunk"
                   THEN "dc" ELSE aggCall.arg.aggfunc_notrans

\* SplunkBackend has rendered a grouped count as dc.
C7_Witness ==
  /\ aggCall.backend = "splunk"
  /\ aggCall.arg.aggfunc_notrans = "count"
  /\ aggCall.arg.groupfield = "host"
  /\ aggCall.out.kind = "text"
  /\ FnToken(aggCall.out) = "dc"

\* C10 as stated: after any sequence of generateAggregation calls the spec
\* object has the value it had before the first call.
C10_SpecUnchanged == agg = agg0

\* x=<v> for one value.
Comparison(key, v) == <<key, "=">> \o generateValueNode(v)

\* x=<v1> OR ... OR x=<vn>.
RECURSIVE OrExpansion(_, _, _)
OrExpansion(key, value, n) ==
  IF n = 0 THEN <<>>
  ELSE IF n = 1 THEN Comparison(key, value[1])
  ELSE OrExpansion(key, value, n - 1) \o <<" OR ">> \o Comparison(key, value[n])

\* C8 as stated: the list node renders as the OR-expansion
\* x=<v1> OR ... OR x=<vn>, with nothing added around it.
C8_BareOrExpansion ==
  lnOut.kind = "text" => lnOut.text = OrExpansion(lnKey, lnValue, Len(lnValue))

\* C8 amended: whenever the list node renders to a text, the text is the
\* OR-expansion x=<v1> OR ... OR x=<vn> in value order enclosed in one pair of
\* parentheses: (x=<v1> OR ... OR x=<vn>).
C8_ParenthesizedOrExpansion ==
  lnOut.kind = "text"
    => lnOut.text = <<"(">> \o OrExpansion(lnKey, lnValue, Len(lnValue)) \o <<")">>

\* SplunkBackend has rendered List{field: x, values: ["a", "b", 1]} as
\* (x="a" OR x="b" OR x=1).
C8_Witness ==
  /\ lnBackend = "splunk"
  /\ lnValue = <<Item("str", <<"a">>), Item("str", <<"b">>), Item("int", <<"1">>)>>
  /\ lnOut = Text(<<"(", "x", "=", Quote, "a", Quote, " OR ",
                    "x", "=", Quote, "b", Quote, " OR ", "x", "=", "1", ")">>)

NextIsNot(s, i, S) == i = Len(s) \/ s[i + 1] \notin S
PrevIsNot(s, i, c) == i = 1 \/ s[i - 1] # c

\* C9 as stated: the pattern selects every quote and every backslash that is
\* not followed by "*", "?" or a backslash, and nothing else.
C9_SelectsByFollowerOnly ==
  escDone
    => escSel = { i \in 1..Len(escVal) :
                    \/ escVal[i] = Quote
                    \/ escVal[i] = Backslash /\ NextIsNot(escVal, i, {"*", "?", Backslash}) }

\* C9 amended: the pattern selects every quote and every backslash that is
\* neither followed by "*", "?" or a backslash nor preceded by a backslash,
\* and nothing else.
C9_SelectsByFollowerAndPredecessor ==
  escDone
    => escSel = { i \in 1..Len(escVal) :
                    \/ escVal[i] = Quote
                    \/ /\ escVal[i] = Backslash
                       /\ NextIsNot(escVal, i, {"*", "?", Backslash})
                       /\ PrevIsNot(escVal, i, Backslash) }

\* The pattern has been applied to a value with a selected quote, and a
\* backslash that follows a backslash, has no wildcard after it and is not
\* selected.
C9_Witness ==
  /\ escDone
  /\ \E i \in escSel : escVal[i] = Quote
  /\ \E i \in 2..Len(escVal) :
       /\ escVal[i] = Backslash
       /\ escVal[i - 1] = Backslash
       /\ NextIsNot(escVal, i, {"*", "?", Backslash})
       /\ i \notin escSel

====
